---- MODULE Spec2Model ----
(***************************************************************************)
(* A model of swc_event_lookup.py: the event lookup driver (main), the     *)
(* query client (query_service, load_swc_key), the parameter translator    *)
(* (create_params) and the time window arithmetic (timestamp_range).       *)
(*                                                                         *)
(* Text is modelled by its fields.  A timestamp text is a record           *)
(*   [date, sep, hour, min, sec, suffix]                                   *)
(* where date is the day ordinal of the printed calendar date (days since  *)
(* 1970-01-01), sep is the character between date and time and suffix is   *)
(* what follows the seconds, so "2021-01-01 00:00:05" is                   *)
(* [date |-> 18628, sep |-> " ", hour |-> 0, min |-> 0, sec |-> 5,         *)
(*  suffix |-> ""].                                                        *)
(***************************************************************************)
EXTENDS Integers, Sequences, FiniteSets, TLC

VARIABLES
    pc,          \* position of the program
    scen,        \* number of the scenario main is in (0 before the first)
    tz,          \* the local time zone of the process (environment)
    eventFile,   \* what opening and parsing event.json gave
    event,       \* the Event mapping read from event.json
    translation, \* the translation scheme in use
    time_range,  \* the time_range argument of create_params / n of timestamp_range
    params,      \* the query parameters built last
    ret,         \* the value returned by timestamp_range
    key,         \* the key read by the last load_swc_key
    requests,    \* the GET requests issued so far, in order
    response,    \* what requests.get gave, while query_service runs
    objects,     \* the value query_service returned in this scenario
    log,         \* the input and output operations performed, in order
    section,     \* standard output: the lines written since the last header
    exitCode,    \* the exit status of the process, -1 while it runs
    raised,      \* the exception that propagated out of the call, None if none
    parsed       \* how many times response.json() was called

vars == << pc, scen, tz, eventFile, event, translation, time_range, params,
           ret, key, requests, response, objects, log, section, exitCode,
           raised, parsed >>

None == "None"

(***************************************************************************)
(* Program constants.                                                      *)
(***************************************************************************)
SWC_API_KEY == "swc_api_key.txt"
SWC_SESSION_URL == "https://cisco-maclemon.obsrvbl.com/api/v3/snapshots/session-data/"
SWC_ALERT_URL == "https://cisco-maclemon.obsrvbl.com/api/v3/alerts/alert/"
SWC_EVENT_FILE_NAME == "event.json"

\* the arguments of sys.exit and the status query_service accepts
ExitKeyFile == 1
ExitEventFile == 2
ExitConnection == 3
ExitStatus == 4
ExitContentType == 5
StatusOk == 200

(***************************************************************************)
(* Local time.  A zone has a UTC offset `before` in force until the epoch  *)
(* instant `at` and `after` from then on (a fixed zone has both equal).    *)
(* `pick` is how the C library resolves a local time that two instants, or *)
(* none, show on the wall clock: the earlier or the later candidate.       *)
(***************************************************************************)
UtcOffset(zone, e) == IF e < zone.at THEN zone.before ELSE zone.after

\* seconds on the wall clock since 1970-01-01 00:00:00 of a broken-down time
Wall(tm) == tm.tm_date * 86400 + tm.tm_hour * 3600 + tm.tm_min * 60 + tm.tm_sec

BrokenDown(w) ==
    [ tm_date |-> w \div 86400,
      tm_hour |-> (w % 86400) \div 3600,
      tm_min  |-> (w % 3600) \div 60,
      tm_sec  |-> w % 60 ]

\* time.strptime(text, "%Y-%m-%d %H:%M:%S")
strptime(text) ==
    [ tm_date |-> text.date, tm_hour |-> text.hour,
      tm_min |-> text.min, tm_sec |-> text.sec ]

\* time.strftime("%Y-%m-%dT%H:%M:%SZ", tm)
strftime(tm) ==
    [ date |-> tm.tm_date, sep |-> "T", hour |-> tm.tm_hour,
      min |-> tm.tm_min, sec |-> tm.tm_sec, suffix |-> "Z" ]

Least(S) == CHOOSE x \in S : \A y \in S : x <= y
Greatest(S) == CHOOSE x \in S : \A y \in S : y <= x

\* int(time.mktime(tm)): the epoch instant whose local time is tm
mktime(tm, zone) ==
    LET w     == Wall(tm)
        both  == { w - zone.before, w - zone.after }
        exact == { e \in both : e + UtcOffset(zone, e) = w }
        cands == IF exact = {} THEN both ELSE exact
    IN  IF zone.pick = "early" THEN Least(cands) ELSE Greatest(cands)

\* time.localtime(e)
localtime(e, zone) == BrokenDown(e + UtcOffset(zone, e))

\* a variant of timestamp_range that formats with time.gmtime
timestamp_range_gmtime(timestamp, n, zone) ==
    LET t == mktime(strptime(timestamp), zone)
    IN  << strftime(BrokenDown(t - n)), strftime(BrokenDown(t + n)) >>

timestamp_range(timestamp, n, zone) ==
    LET t == mktime(strptime(timestamp), zone)
        timestamp_gte == strftime(localtime(t - n, zone))
        timestamp_lte == strftime(localtime(t + n, zone))
    IN  << timestamp_gte, timestamp_lte >>

(***************************************************************************)
(* Inputs of the time arithmetic.                                          *)
(***************************************************************************)
FixedZones ==
    { [ before |-> d, after |-> d, at |-> 0, pick |-> "early" ] :
        d \in { 0, 3600, -18000, 19800 } }

\* clocks go forward at 1609549200 (day 18629, 01:00 UTC): 02:00 -> 03:00;
\* clocks go back at the same instant: 03:00 -> 02:00
ShiftingZones ==
    { [ before |-> 3600, after |-> 7200, at |-> 18629 * 86400 + 3600, pick |-> p ] :
        p \in { "early", "late" } }
    \cup
    { [ before |-> 7200, after |-> 3600, at |-> 18629 * 86400 + 3600, pick |-> p ] :
        p \in { "early", "late" } }

Zones == FixedZones \cup ShiftingZones

IsFixed(zone) == zone.before = zone.after

Text(d, h, m, s) ==
    [ date |-> d, sep |-> " ", hour |-> h, min |-> m, sec |-> s, suffix |-> "" ]

Timestamps ==
    { Text(d, h, m, s) : d \in { 18628, 18629 }, h \in { 0, 1, 2, 23 },
                         m \in { 0, 30, 59 }, s \in { 0, 58 } }

Windows == { 0, 1, 5, 30, 3600 * 24 * 7 }

\* the instant a text denotes when it is read as UTC
Instant(text) == text.date * 86400 + text.hour * 3600 + text.min * 60 + text.sec

(***************************************************************************)
(* SpecTime: timestamp_range applied to every input.                       *)
(***************************************************************************)
NoFile == [ state |-> "unread" ]
NoResponse == [ kind |-> "none" ]

\* the part of the state a specification of one function leaves alone
Idle ==
    /\ scen = 0 /\ eventFile = NoFile /\ key = NoFile
    /\ requests = << >> /\ response = NoResponse /\ objects = << >>
    /\ log = << >> /\ section = << >> /\ exitCode = -1 /\ parsed = 0

InitTime ==
    /\ pc = "call"
    /\ tz \in Zones
    /\ event \in { [ f \in { "timestamp" } |-> t ] : t \in Timestamps }
    /\ time_range \in Windows
    /\ ret = None
    /\ translation = << >> /\ params = << >> /\ raised = None
    /\ Idle

CallTimestampRange ==
    /\ pc = "call"
    /\ ret' = timestamp_range(event["timestamp"], time_range, tz)
    /\ pc' = "return"
    /\ UNCHANGED << scen, tz, eventFile, event, translation, time_range,
                    params, key, requests, response, objects, log, section,
                    exitCode, raised, parsed >>

NextTime == CallTimestampRange

SpecTime == InitTime /\ [][NextTime]_vars

C8_WindowIs2n ==
    pc = "return" =>
        /\ ret[1].suffix = "Z" /\ ret[2].suffix = "Z"
        /\ Instant(ret[2]) - Instant(ret[1]) = 2 * time_range
        /\ Instant(ret[1]) <= Instant(ret[2])
        /\ Instant(event["timestamp"]) - Instant(ret[1]) = time_range
        /\ Instant(ret[2]) - Instant(event["timestamp"]) = time_range

(***************************************************************************)
(* Dictionaries are functions; a translation scheme is the sequence of its *)
(* (parameter name, scheme value) items in insertion order.                *)
(***************************************************************************)
EmptyDict == << >>

SetItem(d, k, v) == [ x \in DOMAIN d \cup { k } |-> IF x = k THEN v ELSE d[x] ]

Keys(scheme) == { scheme[i][1] : i \in DOMAIN scheme }

\* the body of the try statement for one key: the dictionary after the
\* assignment, or the KeyError of a subscript on a missing event field
TryItem(ev, item, n, zone, acc) ==
    LET param_key == item[1]
        field     == item[2]
    IN  IF field = "timestamp_gte"
        THEN IF "timestamp" \in DOMAIN ev
             THEN [ exc |-> None,
                    dict |-> SetItem(acc, param_key,
                                     timestamp_range(ev["timestamp"], n, zone)[1]) ]
             ELSE [ exc |-> "KeyError", dict |-> acc ]
        ELSE IF field = "timestamp_lte"
        THEN IF "timestamp" \in DOMAIN ev
             THEN [ exc |-> None,
                    dict |-> SetItem(acc, param_key,
                                     timestamp_range(ev["timestamp"], n, zone)[2]) ]
             ELSE [ exc |-> "KeyError", dict |-> acc ]
        ELSE IF field \in DOMAIN ev
             THEN [ exc |-> None, dict |-> SetItem(acc, param_key, ev[field]) ]
             ELSE [ exc |-> "KeyError", dict |-> acc ]

\* a variant of the loop with no except clause: the KeyError propagates
RECURSIVE LoopNoExcept(_, _, _, _, _, _)
LoopNoExcept(ev, scheme, n, zone, i, acc) ==
    IF i > Len(scheme) THEN [ exc |-> None, dict |-> acc ]
    ELSE LET r == TryItem(ev, scheme[i], n, zone, acc)
         IN  IF r.exc # None THEN r
             ELSE LoopNoExcept(ev, scheme, n, zone, i + 1, r.dict)

\* a variant of the loop that swaps the two boundaries
RECURSIVE LoopSwapped(_, _, _, _, _, _)
LoopSwapped(ev, scheme, n, zone, i, acc) ==
    IF i > Len(scheme) THEN [ exc |-> None, dict |-> acc ]
    ELSE LET item == scheme[i]
             swap == IF item[2] = "timestamp_gte" THEN << item[1], "timestamp_lte" >>
                     ELSE IF item[2] = "timestamp_lte" THEN << item[1], "timestamp_gte" >>
                     ELSE item
             r    == TryItem(ev, swap, n, zone, acc)
         IN  LoopSwapped(ev, scheme, n, zone, i + 1, r.dict)

\* for param_key in translation: try ... except KeyError: pass
RECURSIVE Loop(_, _, _, _, _, _)
Loop(ev, scheme, n, zone, i, acc) ==
    IF i > Len(scheme) THEN [ exc |-> None, dict |-> acc ]
    ELSE LET r == TryItem(ev, scheme[i], n, zone, acc)
         IN  Loop(ev, scheme, n, zone, i + 1, r.dict)

create_params_no_except(ev, scheme, n, zone) ==
    LoopNoExcept(ev, scheme, n, zone, 1, EmptyDict)

create_params_swapped(ev, scheme, n, zone) ==
    LoopSwapped(ev, scheme, n, zone, 1, EmptyDict)

create_params(ev, scheme, n, zone) == Loop(ev, scheme, n, zone, 1, EmptyDict)

(***************************************************************************)
(* The four translation schemes and time ranges of main.                   *)
(***************************************************************************)
Translation(k) ==
    CASE k = 1 -> << << "ip", "src_ip" >>, << "port", "src_port" >>,
                     << "connected_ip", "dst_ip" >>,
                     << "connected_port", "dst_port" >>,
                     << "protocol", "proto" >>,
                     << "start_timestamp_utc__gte", "timestamp_gte" >>,
                     << "start_timestamp_utc__lte", "timestamp_lte" >> >>
      [] k = 2 -> << << "ip", "src_ip" >>, << "connected_ip", "dst_ip" >>,
                     << "start_timestamp_utc__gte", "timestamp_gte" >>,
                     << "start_timestamp_utc__lte", "timestamp_lte" >> >>
      [] k = 3 -> << << "ip", "src_ip" >>,
                     << "start_timestamp_utc__gte", "timestamp_gte" >>,
                     << "start_timestamp_utc__lte", "timestamp_lte" >> >>
      [] k = 4 -> << << "time__gte", "timestamp_gte" >>,
                     << "time__lte", "timestamp_lte" >> >>

TimeRange(k) ==
    CASE k = 1 -> 5
      [] k = 2 -> 30
      [] k = 3 -> 30
      [] k = 4 -> 3600 * 24 * 7

(***************************************************************************)
(* Inputs of the translator: every subset of the event fields, the schemes *)
(* of main and two more (one copies the raw timestamp and reads one field  *)
(* twice, one is empty).                                                   *)
(***************************************************************************)
Fields == { "src_ip", "src_port", "dst_ip", "dst_port", "proto", "timestamp" }

FieldValue(f) ==
    CASE f = "src_ip"   -> "10.0.0.1"
      [] f = "src_port" -> "51234"
      [] f = "dst_ip"   -> "192.0.2.7"
      [] f = "dst_port" -> "443"
      [] f = "proto"    -> "TCP"

\* timestamps in the format strptime is given, "YYYY-MM-DD HH:MM:SS"
EventTimestamps == { Text(18628, 0, 0, 0), Text(18629, 1, 59, 58) }

EventsOver(S) ==
    IF "timestamp" \in S
    THEN { [ f \in S |-> IF f = "timestamp" THEN t ELSE FieldValue(f) ] :
             t \in EventTimestamps }
    ELSE { [ f \in S |-> FieldValue(f) ] }

Events == UNION { EventsOver(S) : S \in SUBSET Fields }

Schemes ==
    { Translation(k) : k \in 1..4 }
    \cup { << << "raw", "timestamp" >>, << "a", "src_ip" >>, << "b", "src_ip" >>,
              << "until", "timestamp_lte" >> >>,
           << >> }

\* the event field a scheme value reads
SourceField(v) == IF v \in { "timestamp_gte", "timestamp_lte" } THEN "timestamp" ELSE v

SchemeFields(scheme) == { SourceField(scheme[i][2]) : i \in DOMAIN scheme }

InitParams ==
    /\ pc = "call"
    /\ tz \in { z \in Zones : z.pick = "early" }
    /\ event \in Events
    /\ ret = None
    /\ translation \in Schemes
    /\ time_range \in { 5, 30, 3600 * 24 * 7 }
    /\ params = EmptyDict /\ raised = None
    /\ Idle

CallCreateParams ==
    /\ pc = "call"
    /\ LET r == create_params(event, translation, time_range, tz)
       IN  /\ raised' = r.exc
           /\ params' = r.dict
    /\ pc' = "return"
    /\ UNCHANGED << scen, tz, eventFile, event, translation, time_range, ret,
                    key, requests, response, objects, log, section, exitCode,
                    parsed >>

NextParams == CallCreateParams

SpecParams == InitParams /\ [][NextParams]_vars

\* the value create_params is to give the parameter of item i of the scheme
Expected(i) ==
    LET v == translation[i][2]
    IN  IF v = "timestamp_gte"
        THEN timestamp_range(event["timestamp"], time_range, tz)[1]
        ELSE IF v = "timestamp_lte"
        THEN timestamp_range(event["timestamp"], time_range, tz)[2]
        ELSE event[v]

(***************************************************************************)
(* C5: when the event holds every field the scheme references, the keys of *)
(* the result are exactly the keys of the scheme, a key with a literal     *)
(* field name carries the event's value of the field unchanged, and a key  *)
(* marked timestamp_gte / timestamp_lte carries the lower / upper bound of *)
(* timestamp_range(event.timestamp, n).                                    *)
(***************************************************************************)
C5_ExactParameterSet ==
    (pc = "return" /\ SchemeFields(translation) \subseteq DOMAIN event) =>
        /\ raised = None
        /\ DOMAIN params = Keys(translation)
        /\ \A i \in DOMAIN translation : params[translation[i][1]] = Expected(i)

C5_Witness ==
    /\ pc = "return"
    /\ translation = Translation(1)
    /\ DOMAIN event = Fields
    /\ time_range = 5
    /\ DOMAIN params = Keys(Translation(1))
    /\ params["ip"] = "10.0.0.1"
    /\ params["start_timestamp_utc__lte"].sec = 5

(***************************************************************************)
(* C6: for every event, a parameter key is in the result if and only if    *)
(* its source field is in the event (timestamp for the two markers); a     *)
(* missing field raises nothing and leaves the parameters built from the   *)
(* fields that are present as they would be.                               *)
(***************************************************************************)
C6_MissingFieldsOmitted ==
    pc = "return" =>
        /\ raised = None
        /\ \A i \in DOMAIN translation :
             LET k == translation[i][1]
             IN  /\ k \in DOMAIN params <=>
                        SourceField(translation[i][2]) \in DOMAIN event
                 /\ k \in DOMAIN params => params[k] = Expected(i)
        /\ DOMAIN params \subseteq Keys(translation)

C6_Witness ==
    /\ pc = "return"
    /\ translation = Translation(2)
    /\ DOMAIN event = { "src_ip", "dst_port" }
    /\ DOMAIN params = { "ip" }
    /\ params["ip"] = "10.0.0.1"
    /\ raised = None

(***************************************************************************)
(* The driver.  The program is one sequential process; its steps are cut   *)
(* at its input and output operations.  The log holds those operations in  *)
(* order, each [op, what, scen]: a write to stdout (a section header, or   *)
(* the result lines of a scenario), a write to stderr, the opening of a    *)
(* file, a GET.                                                            *)
(***************************************************************************)
Stdout(what, k) == [ op |-> "stdout", what |-> what, scen |-> k ]
Stderr(what, k) == [ op |-> "stderr", what |-> what, scen |-> k ]
Open(file, k)   == [ op |-> "open", what |-> file, scen |-> k ]
Get(url, k)     == [ op |-> "GET", what |-> url, scen |-> k ]

\* the largest number of sessions, and of alerts, in a response
MaxObjects == 6
MaxAlerts == 2

Seqs(S, n) == UNION { [ 1..m -> S ] : m \in 0..n }

StartText == [ date |-> 18628, sep |-> "T", hour |-> 0, min |-> 0, sec |-> 3,
               suffix |-> "Z" ]

Session(i, o) ==
    [ start_timestamp_utc |-> StartText, octets_in |-> i, octets_out |-> o ]

Sessions == { Session(1, 0), Session(0, 1), Session(1, 1) }

Alerts == { [ id |-> 1, text |-> "Alert" ] }

KeyFiles == { << "key-A" >>, << "key-B", "second line" >> }

DriverEvents ==
    { e \in Events :
        /\ DOMAIN e \in { Fields, { "src_ip", "dst_ip" }, { } }
        /\ "timestamp" \in DOMAIN e => e["timestamp"] = Text(18629, 1, 59, 58) }

DriverZones ==
    { z \in Zones : z.pick = "early" /\ z.before \in { 0, 3600 } /\ z.after # 3600 }

\* a variant that queries the session service for the alerts too
Url_sessions_only(k) == SWC_SESSION_URL

Url(k) == IF k = 4 THEN SWC_ALERT_URL ELSE SWC_SESSION_URL

\* header values are sequences of their parts; `in` on them is a search
JsonHeader == [ h \in { "Content-Type" } |-> << "application/json" >> ]

JsonCharsetHeader ==
    [ h \in { "Content-Type" } |-> << "application/json", "; charset=utf-8" >> ]

OtherHeaders ==
    { [ h \in { "Content-Type" } |-> << "text/html" >> ],
      [ h \in { "Server" } |-> << "nginx" >> ] }

Bodies(k) ==
    { [ wellformed |-> TRUE, objects |-> o ] :
        o \in IF k = 4 THEN Seqs(Alerts, MaxAlerts) ELSE Seqs(Sessions, MaxObjects) }

PageBodies ==
    { [ wellformed |-> FALSE, objects |-> << >> ],
      [ wellformed |-> TRUE, objects |-> << >> ] }

\* what requests.get can return in scenario k
Responses(k) ==
    { [ kind |-> "response", status_code |-> 200, headers |-> JsonHeader,
        body |-> b ] : b \in Bodies(k) }
    \cup
    { [ kind |-> "response", status_code |-> c, headers |-> h, body |-> b ] :
        c \in { 200, 404 },
        h \in OtherHeaders \cup { JsonHeader, JsonCharsetHeader },
        b \in PageBodies }

ConnectionError == [ kind |-> "ConnectionError" ]

Init ==
    /\ pc = "start"
    /\ scen = 0
    /\ tz \in DriverZones
    /\ eventFile = NoFile
    /\ event = EmptyDict
    /\ translation = << >>
    /\ time_range = 0
    /\ params = EmptyDict
    /\ ret = None
    /\ key = NoFile
    /\ requests = << >>
    /\ response = NoResponse
    /\ objects = << >>
    /\ log = << >>
    /\ section = << >>
    /\ exitCode = -1
    /\ raised = None
    /\ parsed = 0

(***************************************************************************)
(* Where each step of the program is taken from.                           *)
(***************************************************************************)
AtLoadEvent == pc = "start"
AtBeginScenario == pc = "header" /\ scen < 4
AtLoadKey == pc = "key"
AtSendRequest == pc = "get"
AtAwait == pc = "await"
AtCheckResponse == pc = "check"
AtPrintResults == pc = "print"
AtFinish == pc = "header" /\ scen = 4

\* sys.exit(code) after a line on stderr
Exit(code, message) ==
    /\ log' = Append(log, Stderr(message, scen))
    /\ exitCode' = code
    /\ pc' = "exited"

\* an exception nothing catches: the interpreter prints the traceback and
\* the process ends with status 1
Uncaught(exception) ==
    /\ log' = Append(log, Stderr("Traceback", scen))
    /\ raised' = exception
    /\ exitCode' = 1
    /\ pc' = "exited"

\* main, lines 116-122: open event.json and json.load it
LoadEvent ==
    /\ AtLoadEvent
    /\ \/ /\ eventFile' = [ state |-> "unreadable" ]
          /\ Exit(ExitEventFile, "Unable to read from event.json")
          /\ UNCHANGED << event, raised >>
       \/ /\ eventFile' = [ state |-> "malformed" ]
          /\ Uncaught("JSONDecodeError")
          /\ UNCHANGED event
       \/ \E e \in DriverEvents :
            /\ eventFile' = [ state |-> "read" ]
            /\ event' = e
            /\ log' = Append(log, Open(SWC_EVENT_FILE_NAME, scen))
            /\ pc' = "header"
            /\ UNCHANGED << exitCode, raised >>
    /\ UNCHANGED << scen, tz, translation, time_range, params, ret, key,
                    requests, response, objects, section, parsed >>

\* params["status"] = "all" in the alert scenario
WithStatus(k, d) == IF k = 4 THEN SetItem(d, "status", "all") ELSE d

\* main: print the header of the next scenario and build its parameters
BeginScenario ==
    /\ AtBeginScenario
    /\ scen' = scen + 1
    /\ log' = Append(log, Stdout("header", scen + 1))
    /\ section' = << >>
    /\ translation' = Translation(scen + 1)
    /\ time_range' = TimeRange(scen + 1)
    /\ params' = WithStatus(scen + 1,
                   create_params(event, Translation(scen + 1),
                                 TimeRange(scen + 1), tz).dict)
    /\ objects' = << >>
    /\ pc' = "key"
    /\ UNCHANGED << tz, eventFile, event, ret, key, requests, response,
                    exitCode, raised, parsed >>

\* _.readline().strip() of a file given by its lines
FirstLine(lines) == IF lines = << >> THEN "" ELSE lines[1]

\* load_swc_key, called by query_service while it builds the headers
LoadKey ==
    /\ AtLoadKey
    /\ \/ /\ key' = [ state |-> "unreadable" ]
          /\ Exit(ExitKeyFile, "Unable to read key")
       \/ \E f \in KeyFiles :
            /\ key' = [ state |-> "read", text |-> FirstLine(f) ]
            /\ log' = Append(log, Open(SWC_API_KEY, scen))
            /\ pc' = "get"
            /\ UNCHANGED exitCode
    /\ UNCHANGED << scen, tz, eventFile, event, translation, time_range,
                    params, ret, requests, response, objects, section, raised,
                    parsed >>

\* query_service, line 46: requests.get is called
SendRequest ==
    /\ AtSendRequest
    /\ requests' = Append(requests,
                     [ url |-> Url(scen), params |-> params,
                       Authorization |-> << "ApiKey ", key.text >> ])
    /\ log' = Append(log, Get(Url(scen), scen))
    /\ pc' = "await"
    /\ UNCHANGED << scen, tz, eventFile, event, translation, time_range,
                    params, ret, key, response, objects, section, exitCode,
                    raised, parsed >>

\* requests.get raises ConnectionError (lines 48-50)
ConnectionFails ==
    /\ AtAwait
    /\ response' = ConnectionError
    /\ Exit(ExitConnection, "Unable to connect")
    /\ UNCHANGED << scen, tz, eventFile, event, translation, time_range,
                    params, ret, key, requests, objects, section, raised,
                    parsed >>

\* requests.get returns a response
ReceiveResponse ==
    /\ AtAwait
    /\ response' \in Responses(scen)
    /\ pc' = "check"
    /\ UNCHANGED << scen, tz, eventFile, event, translation, time_range,
                    params, ret, key, requests, objects, log, section,
                    exitCode, raised, parsed >>

\* "application/json" in value
Contains(value, part) == \E i \in DOMAIN value : value[i] = part

\* response.headers.get("Content-Type")
ContentType(r) ==
    IF "Content-Type" \in DOMAIN r.headers
    THEN [ none |-> FALSE, value |-> r.headers["Content-Type"] ]
    ELSE [ none |-> TRUE, value |-> << >> ]

\* a variant that gives a content type failure the exit status of a bad status
Verdict_same_status(r) ==
    IF r.status_code # StatusOk
    THEN [ exit |-> ExitStatus, exc |-> None, parse |-> 0, objects |-> << >> ]
    ELSE IF ContentType(r).none
    THEN [ exit |-> 0, exc |-> "TypeError", parse |-> 0, objects |-> << >> ]
    ELSE IF ~ Contains(ContentType(r).value, "application/json")
    THEN [ exit |-> ExitStatus, exc |-> None, parse |-> 0, objects |-> << >> ]
    ELSE IF ~ r.body.wellformed
    THEN [ exit |-> 0, exc |-> "JSONDecodeError", parse |-> 1, objects |-> << >> ]
    ELSE [ exit |-> 0, exc |-> None, parse |-> 1, objects |-> r.body.objects ]

\* a variant that does not look at the status code
Verdict_any_status(r) ==
    IF ContentType(r).none
    THEN [ exit |-> 0, exc |-> "TypeError", parse |-> 0, objects |-> << >> ]
    ELSE IF ~ Contains(ContentType(r).value, "application/json")
    THEN [ exit |-> ExitContentType, exc |-> None, parse |-> 0, objects |-> << >> ]
    ELSE IF ~ r.body.wellformed
    THEN [ exit |-> 0, exc |-> "JSONDecodeError", parse |-> 1, objects |-> << >> ]
    ELSE [ exit |-> 0, exc |-> None, parse |-> 1, objects |-> r.body.objects ]

\* a variant that does not look at the content type
Verdict_any_type(r) ==
    IF r.status_code # StatusOk
    THEN [ exit |-> ExitStatus, exc |-> None, parse |-> 0, objects |-> << >> ]
    ELSE IF ~ r.body.wellformed
    THEN [ exit |-> 0, exc |-> "JSONDecodeError", parse |-> 1, objects |-> << >> ]
    ELSE [ exit |-> 0, exc |-> None, parse |-> 1, objects |-> r.body.objects ]

\* query_service, lines 52-60: the verdict on a response, as the exit
\* status (0 to go on), the exception raised (None if none), whether the
\* body was parsed, and the objects returned
Verdict(r) ==
    IF r.status_code # StatusOk
    THEN [ exit |-> ExitStatus, exc |-> None, parse |-> 0, objects |-> << >> ]
    ELSE IF ContentType(r).none
    THEN [ exit |-> 0, exc |-> "TypeError", parse |-> 0, objects |-> << >> ]
    ELSE IF ~ Contains(ContentType(r).value, "application/json")
    THEN [ exit |-> ExitContentType, exc |-> None, parse |-> 0, objects |-> << >> ]
    ELSE IF ~ r.body.wellformed
    THEN [ exit |-> 0, exc |-> "JSONDecodeError", parse |-> 1, objects |-> << >> ]
    ELSE [ exit |-> 0, exc |-> None, parse |-> 1, objects |-> r.body.objects ]

CheckResponse ==
    /\ AtCheckResponse
    /\ LET v == Verdict(response)
       IN  /\ parsed' = parsed + v.parse
           /\ \/ /\ v.exit = ExitStatus
                 /\ Exit(ExitStatus, "Received not OK status code")
                 /\ UNCHANGED << objects, response, raised >>
              \/ /\ v.exit = ExitContentType
                 /\ Exit(ExitContentType, "Received not json formatted content")
                 /\ UNCHANGED << objects, response, raised >>
              \/ /\ v.exit = 0 /\ v.exc # None
                 /\ Uncaught(v.exc)
                 /\ UNCHANGED << objects, response >>
              \/ /\ v.exit = 0 /\ v.exc = None
                 /\ objects' = v.objects
                 /\ response' = NoResponse
                 /\ pc' = "print"
                 /\ UNCHANGED << log, exitCode, raised >>
    /\ UNCHANGED << scen, tz, eventFile, event, translation, time_range,
                    params, ret, key, requests, section >>

(***************************************************************************)
(* sessions.sort(key=..., reverse=True): a stable sort of the reversed     *)
(* list by ascending key, reversed again.                                  *)
(***************************************************************************)
Total(x) == x.octets_in + x.octets_out

Reverse(s) == [ i \in 1..Len(s) |-> s[Len(s) + 1 - i] ]

\* x put into the ascending list s behind every element that is not larger
Insert(s, x) ==
    LET n == Cardinality({ i \in DOMAIN s : Total(s[i]) <= Total(x) })
    IN  SubSeq(s, 1, n) \o << x >> \o SubSeq(s, n + 1, Len(s))

RECURSIVE SortAscending(_)
SortAscending(s) ==
    IF s = << >> THEN << >>
    ELSE Insert(SortAscending(SubSeq(s, 1, Len(s) - 1)), s[Len(s)])

\* a variant that sorts ascending and reverses the result
SortReversedAfter(s) == Reverse(SortAscending(s))

SortDescending(s) == Reverse(SortAscending(Reverse(s)))

\* sessions[:5]
FirstFive(s) == SubSeq(s, 1, IF Len(s) < 5 THEN Len(s) ELSE 5)

\* the line print_sessions writes for a session
SessionLine(x) ==
    [ Time    |-> [ x.start_timestamp_utc EXCEPT !.suffix = "", !.sep = " " ],
      DataIn  |-> x.octets_in,
      DataOut |-> x.octets_out ]

\* the text print_alerts writes for an alert
AlertText(a) == [ json |-> a ]

\* what scenario k does to the objects before it prints them
Selected(k, objs) ==
    CASE k = 1 -> objs
      [] k = 2 -> SortDescending(objs)
      [] k = 3 -> FirstFive(SortDescending(objs))
      [] k = 4 -> objs

Lines(k, objs) ==
    [ i \in 1..Len(objs) |->
        IF k = 4 THEN AlertText(objs[i]) ELSE SessionLine(objs[i]) ]

\* main: sort, truncate and print the results of the scenario
PrintResults ==
    /\ AtPrintResults
    /\ section' = Lines(scen, Selected(scen, objects))
    /\ log' = Append(log, Stdout("results", scen))
    /\ pc' = "header"
    /\ UNCHANGED << scen, tz, eventFile, event, translation, time_range,
                    params, ret, key, requests, response, objects, exitCode,
                    raised, parsed >>

\* main returns None and sys.exit(None) ends the process with status 0
Finish ==
    /\ AtFinish
    /\ exitCode' = 0
    /\ pc' = "exited"
    /\ UNCHANGED << scen, tz, eventFile, event, translation, time_range,
                    params, ret, key, requests, response, objects, log,
                    section, raised, parsed >>

Next ==
    \/ LoadEvent
    \/ BeginScenario
    \/ LoadKey
    \/ SendRequest
    \/ ConnectionFails
    \/ ReceiveResponse
    \/ CheckResponse
    \/ PrintResults
    \/ Finish

Spec == Init /\ [][Next]_vars

\* every blocking call returns and the process keeps running
FairSpec == Spec /\ WF_vars(Next)

(***************************************************************************)
(* What failed in a run that has ended, read off the inputs it was given.  *)
(***************************************************************************)
Exited == pc = "exited"

KeyFileUnreadable == key.state = "unreadable"
EventFileUnreadable == eventFile.state = "unreadable"
EventFileMalformed == eventFile.state = "malformed"
ConnectionFailed == response.kind = "ConnectionError"
GotResponse == response.kind = "response"
BadStatus == GotResponse /\ response.status_code # 200
HasContentType == GotResponse /\ "Content-Type" \in DOMAIN response.headers
IsJsonType ==
    HasContentType /\ Contains(response.headers["Content-Type"], "application/json")
IsHtmlType == HasContentType /\ response.headers["Content-Type"] = << "text/html" >>
BadContentType ==
    GotResponse /\ response.status_code = 200 /\ HasContentType /\ ~ IsJsonType

NothingFailed ==
    /\ eventFile.state = "read" /\ key.state = "read"
    /\ response.kind = "none" /\ raised = None

ExitCodes == { ExitKeyFile, ExitEventFile, ExitConnection, ExitStatus, ExitContentType }

StdoutOf(l) == SelectSeq(l, LAMBDA x : x.op = "stdout")
StderrOf(l) == SelectSeq(l, LAMBDA x : x.op = "stderr")
GetsOf(l) == SelectSeq(l, LAMBDA x : x.op = "GET")

C2_EventFileExit ==
    (Exited /\ (EventFileUnreadable \/ EventFileMalformed)) =>
        /\ exitCode = 2
        /\ StdoutOf(log) = << >>
        /\ requests = << >>

(***************************************************************************)
(* C3: for any of the four queries, a response whose status is not 200     *)
(* ends the run with exit code 4, and from the moment the response is      *)
(* received nothing is written but the one error line: no session or alert *)
(* line, no later header, no later query.                                  *)
(***************************************************************************)
C3_BadStatusStops ==
    [][ /\ ~ Exited
        /\ (pc = "check" /\ BadStatus) =>
             /\ pc' = "exited" /\ exitCode' = 4
             /\ log' = Append(log, Stderr("Received not OK status code", scen))
             /\ section' = section /\ requests' = requests /\ scen' = scen
             /\ parsed' = parsed ]_vars

C3_Witness ==
    /\ Exited /\ exitCode = 4 /\ scen = 2 /\ BadStatus
    /\ Len(GetsOf(log)) = 2 /\ section = << >>
    /\ log[Len(log)].op = "stderr"

(***************************************************************************)
(* C4 (as stated): every response whose Content-Type is text/html,         *)
(* whatever its status code, takes the content type error path (exit code  *)
(* 5) and its body is never parsed.                                        *)
(***************************************************************************)
C4_HtmlAnyStatus ==
    (Exited /\ IsHtmlType) => exitCode = 5 /\ raised = None

(***************************************************************************)
(* C4 (amended): a response with status 200 whose Content-Type is          *)
(* text/html takes the content type error path (exit code 5), one with any *)
(* other status takes the status error path (exit code 4); in neither case *)
(* is the body parsed; the body is parsed only when the status is 200 and  *)
(* the Content-Type contains "application/json".                           *)
(***************************************************************************)
C4_HtmlWith200 ==
    /\ [] ((Exited /\ IsHtmlType) =>
             /\ exitCode = IF response.status_code = 200 THEN 5 ELSE 4
             /\ raised = None
             /\ log[Len(log)] =
                  Stderr(IF response.status_code = 200
                         THEN "Received not json formatted content"
                         ELSE "Received not OK status code", scen))
    /\ [][ /\ (pc = "check" /\ IsHtmlType) => parsed' = parsed
           /\ parsed' # parsed =>
                /\ pc = "check" /\ response.status_code = 200 /\ IsJsonType
                /\ parsed' = parsed + 1 ]_vars

C4_Witness ==
    /\ Exited /\ IsHtmlType /\ response.status_code = 200 /\ exitCode = 5
    /\ scen = 2 /\ parsed = 1

Printed == pc = "header" /\ scen \in 1..3

\* the octet counts shown by the lines, and those of the sessions
Shown == [ i \in DOMAIN section |-> << section[i].DataIn, section[i].DataOut >> ]
Returned == [ i \in DOMAIN objects |-> << objects[i].octets_in, objects[i].octets_out >> ]

Sum(pair) == pair[1] + pair[2]
WithSum(s, v) == SelectSeq(s, LAMBDA x : Sum(x) = v)
IsPrefix(s, t) == Len(s) <= Len(t) /\ s = SubSeq(t, 1, Len(s))
NonIncreasing(s) == \A i, j \in DOMAIN s : i < j => Sum(s[i]) >= Sum(s[j])
Sums(s) == { Sum(s[i]) : i \in DOMAIN s }

(***************************************************************************)
(* C9: scenarios 2 and 3 print the sessions in non-increasing order of     *)
(* octets_in + octets_out, sessions with equal totals in the order the     *)
(* service returned them; in scenario 2 the printed list is a permutation  *)
(* of the response, in scenario 3 it has min(5, number returned) entries   *)
(* and no omitted session has a larger total than a printed one; scenario  *)
(* 1 prints the sessions in the order returned.                            *)
(***************************************************************************)
C9_PrintedOrder ==
    Printed =>
        /\ scen = 1 => Shown = Returned
        /\ scen = 2 =>
             /\ NonIncreasing(Shown)
             /\ Len(Shown) = Len(Returned)
             /\ \A v \in Sums(Returned) \cup Sums(Shown) :
                  WithSum(Shown, v) = WithSum(Returned, v)
        /\ scen = 3 =>
             /\ NonIncreasing(Shown)
             /\ Len(Shown) = (IF Len(Returned) < 5 THEN Len(Returned) ELSE 5)
             /\ \A v \in Sums(Returned) \cup Sums(Shown) :
                  /\ IsPrefix(WithSum(Shown, v), WithSum(Returned, v))
                  /\ (\E i \in DOMAIN Shown : Sum(Shown[i]) < v) =>
                        WithSum(Shown, v) = WithSum(Returned, v)

C9_Witness ==
    /\ Printed /\ scen = 3
    /\ Returned = << << 1, 0 >>, << 0, 1 >>, << 1, 1 >>, << 0, 1 >>,
                     << 1, 1 >>, << 1, 0 >> >>
    /\ Shown = << << 1, 1 >>, << 1, 1 >>, << 1, 0 >>, << 0, 1 >>, << 0, 1 >> >>

Block(k, url) ==
    << Stdout("header", k), Open(SWC_API_KEY, k), Get(url, k), Stdout("results", k) >>

FullRun ==
    << Open(SWC_EVENT_FILE_NAME, 0) >>
    \o Block(1, SWC_SESSION_URL) \o Block(2, SWC_SESSION_URL)
    \o Block(3, SWC_SESSION_URL) \o Block(4, SWC_ALERT_URL)

\* the log without the error line that ends a failed run
Performed ==
    IF log # << >> /\ log[Len(log)].op = "stderr"
    THEN SubSeq(log, 1, Len(log) - 1) ELSE log

Seconds(k) ==
    CASE k = 1 -> 5 [] k = 2 -> 30 [] k = 3 -> 30 [] k = 4 -> 7 * 24 * 60 * 60

C10_Sequence ==
    /\ IsPrefix(Performed, FullRun)
    /\ StderrOf(Performed) = << >>
    /\ log # Performed => Exited /\ exitCode # 0
    /\ (Exited /\ exitCode = 0) => log = FullRun
    /\ Len(requests) = Len(GetsOf(log)) /\ Len(requests) <= 4
    /\ \A i \in DOMAIN requests :
         /\ requests[i].url = GetsOf(log)[i].what
         /\ "status" \in DOMAIN requests[i].params <=> i = 4
         /\ i = 4 => requests[i].params["status"] = "all"
    /\ scen \in 1..4 =>
         /\ time_range = Seconds(scen)
         /\ DOMAIN params \subseteq Keys(Translation(scen)) \cup { "status" }
    /\ pc \in { "await", "check" } =>
         requests[Len(requests)].Authorization = << "ApiKey ", key.text >>

\* how far the program has come: six steps to a scenario
Step ==
    CASE pc = "start"  -> 0
      [] pc = "key"    -> 6 * scen - 4
      [] pc = "get"    -> 6 * scen - 3
      [] pc = "await"  -> 6 * scen - 2
      [] pc = "check"  -> 6 * scen - 1
      [] pc = "print"  -> 6 * scen
      [] pc = "header" -> 6 * scen + 1
      [] pc = "exited" -> 6 * 4 + 2

\* some step of the program can be taken
CanStep ==
    \/ AtLoadEvent \/ AtBeginScenario \/ AtLoadKey \/ AtSendRequest
    \/ AtAwait /\ Responses(scen) # { }
    \/ AtCheckResponse \/ AtPrintResults \/ AtFinish

====
